---- MODULE Spec2Model ----
(***************************************************************************)
(* A model of src/app.py: the Streamlit choropleth app over Eurostat's     *)
(* htec_emp_reg2 table.  Tables (pandas DataFrames) are sequences of       *)
(* records; a cell is <<>> when it holds no data (NaN) and <<v>> when it   *)
(* holds the number v.  A call that can raise returns a record             *)
(* [exc, val]: exc is the name of the Python exception, or NoExc.          *)
(***************************************************************************)
EXTENDS Integers, Sequences, FiniteSets, TLC

VARIABLES
    remote_df,      \* what eurostat.get_data_df("htec_emp_reg2") returns now
    remote_dic,     \* what eurostat.get_dic("geo") returns now
    remote_geo,     \* the feature lists of nutsrg_0.json, nutsrg_1.json, nutsrg_2.json
    memo_load_df,           \* cache of @st.experimental_memo load_df
    memo_load_geojson,      \* cache of @st.experimental_memo load_geojson
    singleton_update_df,    \* cache of @st.experimental_singleton update_df
    singleton_draw_figure,  \* cache of @st.experimental_singleton draw_figure
    YEAR, NUTS, SEX, UNIT,  \* the widgets' values (arguments of the last call)
    show_df,                \* the "Show DataFrame" checkbox
    df, geojson, updated_df, fig,   \* the script's module-level names
    written,                \* what st.write displayed in the last run
    exc,                    \* the exception that ended the last call or run
    pc,                     \* where the caller stands
    runs                    \* number of script runs so far

vars == <<remote_df, remote_dic, remote_geo, memo_load_df, memo_load_geojson,
          singleton_update_df, singleton_draw_figure, YEAR, NUTS, SEX, UNIT,
          show_df, df, geojson, updated_df, fig, written, exc, pc, runs>>

-----------------------------------------------------------------------------
(* Bounds of the model *)

\* Largest number of rows of the remote wide table.
MaxRawRows == 2

\* Largest number of script runs in one session.
MaxRuns == 3

-----------------------------------------------------------------------------
(* Values *)

NoExc == "None"
NaN == <<>>
Unset == "unset"

Ok(v) == [exc |-> NoExc, val |-> v]
Raise(e) == [exc |-> e, val |-> <<>>]

\* The year columns of the wide table, in column order.
YearCols == <<2008, 2021>>

\* Raw codes the remote table may carry.
NaceCodes == {"HTC", "KIS"}
SexCodes == {"F", "M", "T"}
UnitCodes == {"PC_EMP", "THS", "PC_ACT"}
GeoCodes == {"DE", "DE1", "DE11", "DE111", "EU27_2020", "EU28", "EU15", "EA19"}
CellValues == {NaN, <<0>>, <<7>>}

\* Entries of Eurostat's geo dictionary.
GeoNames ==
    [g \in GeoCodes |->
        CASE g = "DE" -> "Germany (until 1990 former territory of the FRG)"
          [] g = "DE1" -> "Baden-Wuerttemberg"
          [] g = "DE11" -> "Stuttgart"
          [] g = "DE111" -> "Stuttgart, Stadtkreis"
          [] g = "EU27_2020" -> "European Union - 27 countries (from 2020)"
          [] g = "EU28" -> "European Union - 28 countries (2013-2020)"
          [] g = "EU15" -> "European Union - 15 countries (1995-2004)"
          [] g = "EA19" -> "Euro area - 19 countries  (2015-2022)"]

RawRow(n, u, s, g, c) ==
    [nace_r2 |-> n, unit |-> u, sex |-> s, geo_time |-> g, cells |-> c]

SeqsUpTo(S, n) == UNION {[1..k -> S] : k \in 0..n}

Restrict(f, S) == [x \in S |-> f[x]]

-----------------------------------------------------------------------------
(* pandas and Python helpers, as app.py uses them *)

\* list.index that never looks at the last element.
list_index_short(lst, x) ==
    IF \E i \in 1..(Len(lst) - 1) : lst[i] = x
    THEN Ok((CHOOSE i \in 1..(Len(lst) - 1) :
                lst[i] = x /\ \A j \in 1..(i - 1) : lst[j] # x) - 1)
    ELSE Raise("ValueError")

\* list.index that answers -1 for a missing element, as str.find does.
list_index_find(lst, x) ==
    IF \E i \in 1..Len(lst) : lst[i] = x
    THEN Ok((CHOOSE i \in 1..Len(lst) :
                lst[i] = x /\ \A j \in 1..(i - 1) : lst[j] # x) - 1)
    ELSE Ok(-1)

\* list.index: the position (from 0) of the first equal element, ValueError if none.
list_index(lst, x) ==
    IF \E i \in 1..Len(lst) : lst[i] = x
    THEN Ok((CHOOSE i \in 1..Len(lst) :
                lst[i] = x /\ \A j \in 1..(i - 1) : lst[j] # x) - 1)
    ELSE Raise("ValueError")

\* Series.isin
isin(x, lst) == \E i \in 1..Len(lst) : lst[i] = x

\* pd.melt followed by fillna(0).
melt_fillna(frame) ==
    LET n == Len(frame)
        m == Len(YearCols)
    IN  [k \in 1..(n * m) |->
            LET j == ((k - 1) \div n) + 1
                i == ((k - 1) % n) + 1
            IN  [sex |-> frame[i].sex, geo |-> frame[i].geo, unit |-> frame[i].unit,
                 year |-> YearCols[j],
                 value |-> IF frame[i].cells[j] = NaN THEN <<0>> ELSE frame[i].cells[j]]]

\* pd.melt(frame, id_vars=["sex", "geo", "unit"], var_name="year"): one row per
\* (value column, frame row), the value columns outermost, in column order.
melt(frame) ==
    LET n == Len(frame)
        m == Len(YearCols)
    IN  [k \in 1..(n * m) |->
            LET j == ((k - 1) \div n) + 1
                i == ((k - 1) % n) + 1
            IN  [sex |-> frame[i].sex, geo |-> frame[i].geo, unit |-> frame[i].unit,
                 year |-> YearCols[j], value |-> frame[i].cells[j]]]

\* The mapping with "F" sent to "Males".
replace_sex_typo(x) ==
    CASE x = "M" -> "Males"
      [] x = "F" -> "Males"
      [] x = "T" -> "Total"
      [] OTHER -> x

\* Series.replace(mapping): a value that is a key becomes its image, others stay.
replace_sex(x) ==
    CASE x = "M" -> "Males"
      [] x = "F" -> "Females"
      [] x = "T" -> "Total"
      [] OTHER -> x

\* lambda x: "Percent" if x == "PC_EMP" else "Thousand"
recode_unit(x) == IF x = "PC_EMP" THEN "Percent" ELSE "Thousand"

\* Series.str.replace(pat, repl, regex=False): pat is taken literally, backslashes
\* included.  The names of GeoNames hold pat either as the whole string or not at all.
str_replace(s, pat, repl) == IF s = pat THEN repl ELSE s

GermanyPattern == "Germany \\(until 1990 former territory of the FRG\\)"

\* The exclusion list without the euro area.
AggregateCodes_without_EA19 == <<"EU27_2020", "EU28", "EU15">>

AggregateCodes == <<"EU27_2020", "EU28", "EU15", "EA19">>

\* The rows load_df keeps of the wide table, before unpivoting.
retained(nace_df) ==
    LET htc == SelectSeq(nace_df, LAMBDA r : r.nace_r2 = "HTC")
        dropped == [i \in 1..Len(htc) |->
                      [unit |-> htc[i].unit, sex |-> htc[i].sex,
                       geo_time |-> htc[i].geo_time, cells |-> htc[i].cells]]
        renamed == [i \in 1..Len(dropped) |->
                      [unit |-> dropped[i].unit, sex |-> dropped[i].sex,
                       geo |-> dropped[i].geo_time, cells |-> dropped[i].cells]]
    IN  SelectSeq(renamed, LAMBDA r : ~isin(r.geo, AggregateCodes))

\* location_dict.get(x): None for a missing key.
lookup_location_get(location_dict, x) ==
    IF x \in DOMAIN location_dict THEN Ok(location_dict[x]) ELSE Ok("None")

\* nace_df.geo.apply(lambda x: location_dict[x]): KeyError on a missing key.
lookup_location(location_dict, x) ==
    IF x \in DOMAIN location_dict THEN Ok(location_dict[x]) ELSE Raise("KeyError")

load_df_body(nace_df, location_dict) ==
    LET long == melt(retained(nace_df))
        looked == [k \in 1..Len(long) |-> lookup_location(location_dict, long[k].geo)]
    IN  IF \E k \in 1..Len(long) : looked[k].exc # NoExc
        THEN Raise("KeyError")
        ELSE Ok([k \in 1..Len(long) |->
                    [year |-> long[k].year,
                     sex |-> replace_sex(long[k].sex),
                     unit |-> recode_unit(long[k].unit),
                     value |-> long[k].value,
                     geo |-> long[k].geo,
                     location |-> str_replace(looked[k].val, GermanyPattern, "Germany")]])

LEVELS == <<"Countries", "NUTS 1", "NUTS 2">>

\* The level's code length taken one too short.
level_length_off(idx) == idx + 1

\* ["Countries", "NUTS 1", "NUTS 2"].index(nuts) + 2
level_length(idx) == idx + 2

\* The test made on "Abs." instead of "Rel.", the branches kept.
unit_for_swapped(unit) == IF unit = "Abs." THEN "Percent" ELSE "Thousand"

\* "Percent" if unit == "Rel." else "Thousand"
unit_for(unit) == IF unit = "Rel." THEN "Percent" ELSE "Thousand"

update_df_body(nace_df, year, nuts, sex, unit) ==
    LET idx == list_index(LEVELS, nuts)
    IN  IF idx.exc # NoExc
        THEN Raise(idx.exc)
        ELSE LET nuts_len == level_length(idx.val)
                 unit_name == unit_for(unit)
             IN  Ok(SelectSeq(nace_df, LAMBDA r :
                        /\ r.year = year
                        /\ Len(r.geo) = nuts_len
                        /\ r.sex = sex
                        /\ r.unit = unit_name))

-----------------------------------------------------------------------------
(* Inputs *)

\* Rows that differ in classification and geography.
GeoRows == {RawRow(n, "PC_EMP", "T", g, <<<<7>>, NaN>>) : n \in NaceCodes, g \in GeoCodes}

\* Rows that differ in sex and unit.
KeyRows == {RawRow("HTC", u, s, "DE", <<<<0>>, <<7>>>>) : u \in UnitCodes, s \in SexCodes}

\* Rows that differ in the content of a cell.
CellRows == {RawRow("HTC", u, s, "DE", <<c, <<7>>>>) :
                u \in {"PC_EMP", "THS"}, s \in {"F", "T"}, c \in CellValues}

RawTables ==
    SeqsUpTo(GeoRows, MaxRawRows) \cup SeqsUpTo(KeyRows, MaxRawRows)
        \cup SeqsUpTo(CellRows, MaxRawRows)

Dicts == {Restrict(GeoNames, GeoCodes \ missing) : missing \in {{}, {"DE1"}, {"EU28"}}}

\* Arguments a caller may hand to update_df, inside and outside the widgets' domains.
SelYears == {2008, 2022}
SelLevels == {"Countries", "NUTS 1", "NUTS 2", "NUTS-3"}
SelSexes == {"Females", "Total", "Males", "F"}
SelUnits == {"Abs.", "Rel.", "Percent"}

-----------------------------------------------------------------------------
(* Calling load_df and update_df directly *)

Init ==
    /\ remote_df \in RawTables
    /\ remote_dic \in (IF \A i \in 1..Len(remote_df) : remote_df[i] \in GeoRows
                       THEN Dicts ELSE {GeoNames})
    /\ remote_geo = <<>>
    /\ memo_load_df = <<>>
    /\ memo_load_geojson = <<>>
    /\ singleton_update_df = {}
    /\ singleton_draw_figure = {}
    /\ YEAR = Unset /\ NUTS = Unset /\ SEX = Unset /\ UNIT = Unset
    /\ show_df = FALSE
    /\ df = <<>> /\ geojson = <<>> /\ updated_df = <<>> /\ fig = <<>>
    /\ written = <<>>
    /\ exc = NoExc
    /\ pc = "start"
    /\ runs = 0

CallLoadDf ==
    /\ pc = "start"
    /\ LET r == load_df_body(remote_df, remote_dic)
       IN  /\ df' = r.val
           /\ exc' = r.exc
           /\ pc' = IF r.exc = NoExc THEN "loaded" ELSE "failed"
    /\ UNCHANGED <<remote_df, remote_dic, remote_geo, memo_load_df, memo_load_geojson,
                   singleton_update_df, singleton_draw_figure, YEAR, NUTS, SEX, UNIT,
                   show_df, geojson, updated_df, fig, written, runs>>

CallUpdateDf(year, nuts, sex, unit) ==
    /\ pc = "loaded"
    /\ LET r == update_df_body(df, year, nuts, sex, unit)
       IN  /\ updated_df' = r.val
           /\ exc' = r.exc
    /\ YEAR' = year /\ NUTS' = nuts /\ SEX' = sex /\ UNIT' = unit
    /\ pc' = "selected"
    /\ UNCHANGED <<remote_df, remote_dic, remote_geo, memo_load_df, memo_load_geojson,
                   singleton_update_df, singleton_draw_figure,
                   show_df, df, geojson, fig, written, runs>>

Next ==
    \/ CallLoadDf
    \/ \E year \in SelYears, nuts \in SelLevels, sex \in SelSexes, unit \in SelUnits :
          CallUpdateDf(year, nuts, sex, unit)

Spec == Init /\ [][Next]_vars

-----------------------------------------------------------------------------
(* The script: Streamlit runs it from top to bottom once per widget change *)

\* Combine geometries in single object: the features of the three documents.
load_geojson_body(api_requests) ==
    api_requests[1] \o api_requests[2] \o api_requests[3]

\* px.choropleth_mapbox(...) and update_layout(...): the figure keeps the table and
\* the geometries it was given, and the title of its colour bar.
draw_figure_body(nace_df, json_file, unit) ==
    [data_frame |-> nace_df,
     geojson |-> json_file,
     coloraxis_colorbar_title_text |-> IF unit = "Abs." THEN "Thousand" ELSE "Percent"]

\* Whether value a comes before value b under ascending=False (NaN goes last).
sorts_before(a, b) == a # NaN /\ (b = NaN \/ a[1] > b[1])

RECURSIVE insert_sorted(_, _)
insert_sorted(sorted, r) ==
    IF sorted = <<>> THEN <<r>>
    ELSE IF sorts_before(r.value, Head(sorted).value) THEN <<r>> \o sorted
    ELSE <<Head(sorted)>> \o insert_sorted(Tail(sorted), r)

\* sort_values(by="value", ascending=False).reset_index(drop=True): a new table,
\* ties kept in table order.
RECURSIVE sort_values(_)
sort_values(frame) ==
    IF frame = <<>> THEN <<>>
    ELSE insert_sorted(sort_values(SubSeq(frame, 1, Len(frame) - 1)), frame[Len(frame)])

\* @st.experimental_memo on a function without arguments: one entry, kept for the
\* life of the process; a raised exception is not stored.
memo_hit(cache) == cache # <<>>
memo_store(cache, r) == IF r.exc = NoExc THEN <<r.val>> ELSE cache

\* A cache key that leaves the unit out.
update_df_key_no_unit(nace_df, year, nuts, sex, unit) == <<nace_df, year, nuts, sex>>

\* @st.experimental_singleton: one entry per value of the arguments.
update_df_key(nace_df, year, nuts, sex, unit) == <<nace_df, year, nuts, sex, unit>>
draw_figure_key(nace_df, json_file, unit) == <<nace_df, json_file, unit>>
singleton_hit(cache, key) == \E e \in cache : e.key = key
singleton_get(cache, key) == (CHOOSE e \in cache : e.key = key).val
singleton_store(cache, key, r) ==
    IF r.exc = NoExc /\ ~singleton_hit(cache, key)
    THEN cache \cup {[key |-> key, val |-> r.val]}
    ELSE cache

\* load_df() as the script calls it
load_df(cache, nace_df, location_dict) ==
    IF memo_hit(cache) THEN Ok(cache[1]) ELSE load_df_body(nace_df, location_dict)

\* load_geojson() as the script calls it
load_geojson(cache, api_requests) ==
    IF memo_hit(cache) THEN Ok(cache[1]) ELSE Ok(load_geojson_body(api_requests))

\* update_df(df, YEAR, NUTS, SEX, UNIT) as the script calls it
update_df(cache, nace_df, year, nuts, sex, unit) ==
    LET key == update_df_key(nace_df, year, nuts, sex, unit)
    IN  IF singleton_hit(cache, key) THEN Ok(singleton_get(cache, key))
        ELSE update_df_body(nace_df, year, nuts, sex, unit)

\* draw_figure(updated_df, geojson, UNIT) as the script calls it
draw_figure(cache, nace_df, json_file, unit) ==
    LET key == draw_figure_key(nace_df, json_file, unit)
    IN  IF singleton_hit(cache, key) THEN Ok(singleton_get(cache, key))
        ELSE Ok(draw_figure_body(nace_df, json_file, unit))

\* What the remote sources publish over time: a first release, a revision of it
\* with one more region, and a release whose region is missing from the dictionary.
Publications ==
    {[df |-> <<RawRow("HTC", "PC_EMP", "T", "DE", <<<<7>>, <<0>>>>),
               RawRow("HTC", "THS", "T", "DE", <<NaN, <<7>>>>)>>,
      dic |-> GeoNames,
      geo |-> <<<<"DE">>, <<"DE1">>, <<"DE11">>>>],
     [df |-> <<RawRow("HTC", "PC_EMP", "T", "DE", <<<<7>>, <<7>>>>),
               RawRow("HTC", "THS", "T", "DE", <<<<0>>, <<7>>>>),
               RawRow("HTC", "PC_EMP", "T", "DE1", <<<<0>>, NaN>>)>>,
      dic |-> GeoNames,
      geo |-> <<<<"DE", "FR">>, <<"DE1">>, <<>>>>],
     [df |-> <<RawRow("HTC", "PC_EMP", "T", "DE1", <<<<7>>, <<0>>>>)>>,
      dic |-> Restrict(GeoNames, GeoCodes \ {"DE1"}),
      geo |-> <<<<"DE">>, <<"DE1">>, <<"DE11">>>>]}

\* The values the widgets offer (st.slider, select_slider), cut down to the model.
WidgetYears == {2008, 2021}
WidgetLevels == {"Countries", "NUTS 1", "NUTS 2"}
WidgetSexes == {"Total"}
WidgetUnits == {"Abs.", "Rel."}

InitApp ==
    /\ \E p \in Publications :
          remote_df = p.df /\ remote_dic = p.dic /\ remote_geo = p.geo
    /\ memo_load_df = <<>>
    /\ memo_load_geojson = <<>>
    /\ singleton_update_df = {}
    /\ singleton_draw_figure = {}
    /\ YEAR = 2021 /\ NUTS = "NUTS 1" /\ SEX = "Total" /\ UNIT = "Rel."
    /\ show_df = FALSE
    /\ df = <<>> /\ geojson = <<>> /\ updated_df = <<>> /\ fig = <<>>
    /\ written = <<>>
    /\ exc = NoExc
    /\ pc = "idle"
    /\ runs = 0

\* One run of the script (lines 125-157) with the widgets at the given values.
Rerun(year, nuts, sex, unit, show) ==
    /\ runs < MaxRuns
    /\ runs' = runs + 1
    /\ YEAR' = year /\ NUTS' = nuts /\ SEX' = sex /\ UNIT' = unit /\ show_df' = show
    /\ LET ld == load_df(memo_load_df, remote_df, remote_dic)
           gj == load_geojson(memo_load_geojson, remote_geo)
           ud == update_df(singleton_update_df, ld.val, year, nuts, sex, unit)
           fg == draw_figure(singleton_draw_figure, ud.val, gj.val, unit)
       IN  IF ld.exc # NoExc
           THEN \* line 139 raised: the run ends there
                /\ exc' = ld.exc /\ pc' = "failed"
                /\ df' = <<>> /\ geojson' = <<>> /\ updated_df' = <<>> /\ fig' = <<>>
                /\ written' = <<>>
                /\ UNCHANGED <<memo_load_df, memo_load_geojson, singleton_update_df,
                               singleton_draw_figure>>
           ELSE IF ud.exc # NoExc
           THEN \* line 141 raised
                /\ exc' = ud.exc /\ pc' = "failed"
                /\ memo_load_df' = memo_store(memo_load_df, ld)
                /\ memo_load_geojson' = memo_store(memo_load_geojson, gj)
                /\ df' = ld.val /\ geojson' = gj.val /\ updated_df' = <<>> /\ fig' = <<>>
                /\ written' = <<>>
                /\ UNCHANGED <<singleton_update_df, singleton_draw_figure>>
           ELSE /\ exc' = NoExc /\ pc' = "done"
                /\ memo_load_df' = memo_store(memo_load_df, ld)
                /\ memo_load_geojson' = memo_store(memo_load_geojson, gj)
                /\ singleton_update_df' =
                      singleton_store(singleton_update_df,
                                      update_df_key(ld.val, year, nuts, sex, unit), ud)
                /\ singleton_draw_figure' =
                      singleton_store(singleton_draw_figure,
                                      draw_figure_key(ud.val, gj.val, unit), fg)
                /\ df' = ld.val /\ geojson' = gj.val
                /\ updated_df' = ud.val /\ fig' = fg.val
                /\ written' = IF show THEN sort_values(ud.val) ELSE <<>>
    /\ UNCHANGED <<remote_df, remote_dic, remote_geo>>

\* Between two runs the remote sources publish something else.
RemoteChange ==
    /\ runs < MaxRuns
    /\ \E p \in Publications :
          /\ <<p.df, p.dic, p.geo>> # <<remote_df, remote_dic, remote_geo>>
          /\ remote_df' = p.df /\ remote_dic' = p.dic /\ remote_geo' = p.geo
    /\ UNCHANGED <<memo_load_df, memo_load_geojson, singleton_update_df,
                   singleton_draw_figure, YEAR, NUTS, SEX, UNIT, show_df, df, geojson,
                   updated_df, fig, written, exc, pc, runs>>

NextApp ==
    \/ \E year \in WidgetYears, nuts \in WidgetLevels, sex \in WidgetSexes,
          unit \in WidgetUnits, show \in BOOLEAN :
          Rerun(year, nuts, sex, unit, show)
    \/ RemoteChange

SpecApp == InitApp /\ [][NextApp]_vars

-----------------------------------------------------------------------------
(* Properties of load_df and update_df, checked under Spec *)

Rows(table) == {table[k] : k \in 1..Len(table)}
Count(table, r) == Cardinality({k \in 1..Len(table) : table[k] = r})

Loaded == pc \in {"loaded", "selected"}

ValidLevels == {"Countries", "NUTS 1", "NUTS 2"}
ValidUnits == {"Abs.", "Rel."}
ValidSexes == {"Females", "Total", "Males"}
ExcludedCodes == {"EU27_2020", "EU28", "EU15", "EA19"}
LevelLengths == {2, 3, 4}

LengthFor(level) ==
    CASE level = "Countries" -> 2 [] level = "NUTS 1" -> 3 [] level = "NUTS 2" -> 4

UnitNameFor(label) == CASE label = "Abs." -> "Thousand" [] label = "Rel." -> "Percent"

Matches(r, year, level, sex, label) ==
    /\ r.year = year
    /\ Len(r.geo) = LengthFor(level)
    /\ r.sex = sex
    /\ r.unit = UnitNameFor(label)

WellFormedCall == pc = "selected" /\ NUTS \in ValidLevels /\ UNIT \in ValidUnits

\* The rows of the wide table that pass the classification filter and the exclusion.
RetainedIdx ==
    {i \in 1..Len(remote_df) :
        remote_df[i].nace_r2 = "HTC" /\ remote_df[i].geo_time \notin ExcludedCodes}

\* C1: for a level in {Countries, NUTS 1, NUTS 2} and a unit in {Abs., Rel.},
\* update_df returns exactly the rows of the table whose year, geo length, sex and
\* unit match the selection: each row as often as the table holds it when it
\* matches, and not at all when it does not.
C1_SelectExact ==
    WellFormedCall =>
        /\ exc = NoExc
        /\ \A r \in Rows(df) \cup Rows(updated_df) :
              Count(updated_df, r) =
                  IF Matches(r, YEAR, NUTS, SEX, UNIT) THEN Count(df, r) ELSE 0

C1_Witness ==
    /\ WellFormedCall
    /\ updated_df # <<>>
    /\ \E r \in Rows(df) :
          /\ r.year = YEAR /\ Len(r.geo) = LengthFor(NUTS) /\ r.sex = SEX
          /\ r.unit # UnitNameFor(UNIT)

\* C2: no row of the normalized table carries one of the aggregate codes
\* EU27_2020, EU28, EU15, EA19.
C2_NoAggregates ==
    Loaded => \A k \in 1..Len(df) : df[k].geo \notin ExcludedCodes

C2_Witness ==
    /\ pc = "loaded"
    /\ df # <<>>
    /\ \E i \in 1..Len(remote_df) :
          remote_df[i].nace_r2 = "HTC" /\ remote_df[i].geo_time = "EA19"

\* C3 as stated: a geo code anywhere in the statistical table without an entry in
\* the lookup makes load_df fail, and no row has a missing location.
C3_AnyMissingFails ==
    pc # "start" =>
        /\ (\E i \in 1..Len(remote_df) : remote_df[i].geo_time \notin DOMAIN remote_dic)
              => (pc = "failed" /\ exc # NoExc)
        /\ \A k \in 1..Len(df) : df[k].geo \in DOMAIN remote_dic

\* C3, amended: load_df fails with KeyError and returns no table exactly when a row
\* it retains (classification HTC, geo not an excluded aggregate) has a geo code
\* without an entry in the lookup; every row it returns has the looked-up name.
C3_RetainedMissingFails ==
    pc # "start" =>
        /\ (\E i \in RetainedIdx : remote_df[i].geo_time \notin DOMAIN remote_dic)
              <=> (pc = "failed" /\ exc = "KeyError" /\ df = <<>>)
        /\ \A k \in 1..Len(df) :
              /\ df[k].geo \in DOMAIN remote_dic
              /\ df[k].location \in {remote_dic[df[k].geo], "Germany"}

C3_Witness ==
    /\ pc = "failed"
    /\ exc = "KeyError"
    /\ \E i \in RetainedIdx : remote_df[i].geo_time \notin DOMAIN remote_dic

RawKeyUnique ==
    \A i, j \in 1..Len(remote_df) :
        i # j =>
            <<remote_df[i].nace_r2, remote_df[i].sex, remote_df[i].geo_time,
              remote_df[i].unit>>
            # <<remote_df[j].nace_r2, remote_df[j].sex, remote_df[j].geo_time,
                remote_df[j].unit>>

NormalizedKeyUnique ==
    \A a, b \in 1..Len(df) :
        a # b => <<df[a].year, df[a].sex, df[a].unit, df[a].geo>>
                 # <<df[b].year, df[b].sex, df[b].unit, df[b].geo>>

\* C4 as stated: a unique raw key (classification, sex, geo, unit) gives a unique
\* normalized key (year, sex, unit, geo).
C4_UniqueKey == (pc = "loaded" /\ RawKeyUnique) => NormalizedKeyUnique

\* C4, amended: the same, for raw tables whose sex codes are F, M or T and which
\* carry at most one unit code other than PC_EMP.
C4_UniqueKeyKnownCodes ==
    (/\ pc = "loaded"
     /\ RawKeyUnique
     /\ \A i \in 1..Len(remote_df) : remote_df[i].sex \in {"F", "M", "T"}
     /\ \A i, j \in 1..Len(remote_df) :
           (remote_df[i].unit # "PC_EMP" /\ remote_df[j].unit # "PC_EMP")
               => remote_df[i].unit = remote_df[j].unit)
        => NormalizedKeyUnique

C4_Witness ==
    /\ pc = "loaded"
    /\ RawKeyUnique
    /\ Len(remote_df) = 2
    /\ \A i \in 1..Len(remote_df) : remote_df[i].sex \in {"F", "M", "T"}
    /\ {remote_df[i].unit : i \in 1..Len(remote_df)} = {"PC_EMP", "THS"}
    /\ remote_df[1].sex = remote_df[2].sex
    /\ Len(df) = 4

UnitLabelOf(name) == IF name = "Percent" THEN "Rel." ELSE "Abs."

\* The levels for which update_df returns the row r of the normalized table, the
\* year, sex and unit of the selection being r's own.
LevelsReturning(r) ==
    {level \in ValidLevels :
        r \in Rows(update_df_body(df, r.year, level, r.sex, UnitLabelOf(r.unit)).val)}

\* C5 as stated: every normalized row has a geo code of length 2, 3 or 4 and is
\* returned by update_df for exactly one level.
C5_EveryRowOneLevel ==
    pc = "loaded" =>
        \A k \in 1..Len(df) :
            /\ Len(df[k].geo) \in LevelLengths
            /\ Cardinality(LevelsReturning(df[k])) = 1

\* C5, amended: a normalized row whose geo code has length 2, 3 or 4 is returned by
\* update_df for exactly one level and a row of any other length for none; the
\* 9-character aggregate EU27_2020 is never in the table, and when every retained
\* raw geo code has length 2, 3 or 4, so has every normalized row.
C5_OneLevelPerKnownLength ==
    pc = "loaded" =>
        /\ \A k \in 1..Len(df) :
              /\ Len(df[k].geo) \in LevelLengths
                    => Cardinality(LevelsReturning(df[k])) = 1
              /\ Len(df[k].geo) \notin LevelLengths => LevelsReturning(df[k]) = {}
              /\ df[k].geo # "EU27_2020"
        /\ (\A i \in RetainedIdx : Len(remote_df[i].geo_time) \in LevelLengths)
              => \A k \in 1..Len(df) : Len(df[k].geo) \in LevelLengths

C5_Witness ==
    /\ pc = "loaded"
    /\ \A i \in RetainedIdx : Len(remote_df[i].geo_time) \in LevelLengths
    /\ \E a \in 1..Len(df) : Cardinality(LevelsReturning(df[a])) = 1
    /\ \E i \in 1..Len(remote_df) : remote_df[i].geo_time = "EU27_2020"
                                      /\ remote_df[i].nace_r2 = "HTC"

\* The normalized row that cell j of raw row i stands for, without its location.
Expected(i, j) ==
    [year |-> YearCols[j],
     sex |-> replace_sex(remote_df[i].sex),
     unit |-> recode_unit(remote_df[i].unit),
     geo |-> remote_df[i].geo_time,
     value |-> remote_df[i].cells[j]]

Projection(r) ==
    [year |-> r.year, sex |-> r.sex, unit |-> r.unit, geo |-> r.geo, value |-> r.value]

\* C6: the normalized table holds one row per (retained raw row, year column), its
\* value the raw cell, an absent cell staying absent; and every row update_df
\* returns is a row of the normalized table, value included.
C6_CellsPreserved ==
    /\ pc = "loaded" =>
          /\ Len(df) = Cardinality(RetainedIdx) * Len(YearCols)
          /\ \A i \in RetainedIdx, j \in 1..Len(YearCols) :
                Cardinality({k \in 1..Len(df) : Projection(df[k]) = Expected(i, j)})
                    = Cardinality({p \in RetainedIdx \X (1..Len(YearCols)) :
                                      Expected(p[1], p[2]) = Expected(i, j)})
    /\ pc = "selected" =>
          \A k \in 1..Len(updated_df) :
              \E i \in RetainedIdx, j \in 1..Len(YearCols) :
                  Projection(updated_df[k]) = Expected(i, j)

C6_Witness ==
    /\ pc = "selected"
    /\ exc = NoExc
    /\ \E k \in 1..Len(updated_df) : updated_df[k].value = NaN
    /\ \E k \in 1..Len(updated_df) : updated_df[k].value = <<0>>
    /\ \E i \in RetainedIdx : remote_df[i].cells[1] = NaN

\* C7: a call with level and unit in their domains returns a table without
\* raising, and the table is empty when no row matches (a year outside 2008..2021
\* included).
C7_EmptyNotError ==
    WellFormedCall =>
        /\ exc = NoExc
        /\ (\A k \in 1..Len(df) : ~Matches(df[k], YEAR, NUTS, SEX, UNIT))
              => updated_df = <<>>

C7_Witness ==
    /\ WellFormedCall
    /\ YEAR = 2022
    /\ NUTS = "NUTS 2"
    /\ df # <<>>
    /\ updated_df = <<>>
    /\ exc = NoExc

\* C8: a level outside {Countries, NUTS 1, NUTS 2} makes update_df raise
\* ValueError and return no table, whatever year, sex and unit are.
C8_UnknownLevelRaises ==
    (pc = "selected" /\ NUTS \notin ValidLevels)
        => (exc = "ValueError" /\ updated_df = <<>>)

C8_Witness ==
    /\ pc = "selected"
    /\ NUTS = "NUTS-3"
    /\ exc = "ValueError"
    /\ \E k \in 1..Len(df) : df[k].year = YEAR /\ df[k].sex = SEX

\* C9 as stated: a unit label outside {Abs., Rel.} or a sex label outside
\* {Females, Total, Males} makes update_df raise.
C9_UnknownLabelRaises ==
    (pc = "selected" /\ (UNIT \notin ValidUnits \/ SEX \notin ValidSexes))
        => exc # NoExc

-----------------------------------------------------------------------------
(* Properties of the script, checked under SpecApp *)

C10_Current ==
    pc = "done" =>
        /\ updated_df = SelectSeq(df, LAMBDA r : Matches(r, YEAR, NUTS, SEX, UNIT))
        /\ fig.data_frame = updated_df
        /\ fig.geojson = geojson

C10_Kept ==
    (pc = "done" /\ pc' = "done") => (df' = df /\ geojson' = geojson)

\* C10: after every run the table handed to rendering is the filter of the
\* normalized table by the current selection, and from one completed run to the
\* next the normalized table and the merged boundary collection stay the same.
C10_FreshSelectionStableData == [](C10_Current) /\ [][C10_Kept]_vars

C10_Witness ==
    /\ pc = "done"
    /\ runs >= 2
    /\ Cardinality(singleton_update_df) >= 2
    /\ updated_df # <<>>
    /\ written # <<>>
    /\ load_df_body(remote_df, remote_dic).val # df
    /\ load_geojson_body(remote_geo) # geojson

====
